---------------------------- MODULE Spec2Model ----------------------------
(***************************************************************************)
(* A model of the markov chain client library:                             *)
(*   - ContentString, the validated text value (src/src/content_string.rs) *)
(*   - InputPayload / GeneratePayload and their JSON form (src/src/lib.rs) *)
(*   - MarkovChainClient: new, input, generate, post, get_url              *)
(*                                                                         *)
(* Two specifications share the module.  TextSpec exercises ContentString  *)
(* and the payload serialization on texts around the length limits.  Spec  *)
(* exercises the client against a transport that may fail or answer with   *)
(* any status.                                                             *)
(***************************************************************************)
EXTENDS Integers, Sequences, FiniteSets, TLC

VARIABLES
    raw,        \* the String handed to the ContentString constructors
    values,     \* the ContentString values alive, by slot
    payload,    \* the payload built last (Option)
    last,       \* the last operation on a value or payload with what it returned
    client,     \* the MarkovChainClient: not built, ready, or construction panicked
    calls,      \* every call of input/generate: its position and its result
    wire        \* the HTTP requests handed to the transport, in order

textVars == <<raw, values, payload, last>>
clientVars == <<client, calls, wire>>
vars == <<raw, values, payload, last, client, calls, wire>>

-----------------------------------------------------------------------------
(* Bounds of the model *)

\* slots for ContentString values alive at once
MaxValues == 2
\* leading one-byte characters of an input text
MaxPrefix == 2
\* short repetitions 0..MaxShort of the repeated character
MaxShort == 1
\* repetitions within Slack of the count that reaches MAX_LEN bytes
Slack == 1
\* calls of input/generate in flight on one client
MaxCalls == 1
\* tokens after the scheme in a base address
MaxPathLen == 3

-----------------------------------------------------------------------------
(* Option and Result, as the Rust enums *)

None == [tag |-> "None"]
Some(v) == [tag |-> "Some", some |-> v]
Ok(v) == [tag |-> "Ok", val |-> v]
Err(e) == [tag |-> "Err", err |-> e]

-----------------------------------------------------------------------------
(* Text: a String is kept run by run, <<[ch, n], ...>> standing for n copies *)
(* of character ch after one another.  Adjacent runs hold different          *)
(* characters and no run is empty, so equal texts are equal values.          *)

Chars == {"a", "e_acute", "euro", "emoji"}

\* bytes of the character's UTF-8 encoding
Utf8Width(c) ==
    CASE c = "a" -> 1
      [] c = "e_acute" -> 2
      [] c = "euro" -> 3
      [] c = "emoji" -> 4

Rep(c, n) == IF n = 0 THEN <<>> ELSE <<[ch |-> c, n |-> n]>>

Concat(s, t) ==
    IF s = <<>> THEN t
    ELSE IF t = <<>> THEN s
    ELSE IF s[Len(s)].ch = t[1].ch
         THEN SubSeq(s, 1, Len(s) - 1)
              \o <<[ch |-> t[1].ch, n |-> s[Len(s)].n + t[1].n]>>
              \o Tail(t)
         ELSE s \o t

RECURSIVE CharLen(_)
CharLen(s) == IF s = <<>> THEN 0 ELSE s[1].n + CharLen(Tail(s))

\* String::len: the length in bytes of the UTF-8 encoding, not in characters
RECURSIVE len(_)
len(s) == IF s = <<>> THEN 0 ELSE s[1].n * Utf8Width(s[1].ch) + len(Tail(s))

-----------------------------------------------------------------------------
(* ContentString *)

MAX_LEN == 2000

ContentString(s) == [inner |-> s]

Empty == [kind |-> "Empty"]
TooLong(length, max) == [kind |-> "TooLong", length |-> length, max |-> max]

\* new with the limit taken as exclusive
new_exclusive_max(s) ==
    IF len(s) = 0 THEN Err(Empty)
    ELSE IF len(s) >= MAX_LEN THEN Err(TooLong(len(s), MAX_LEN))
    ELSE Ok(ContentString(s))

\* new measuring characters instead of bytes
new_counts_chars(s) ==
    IF CharLen(s) = 0 THEN Err(Empty)
    ELSE IF CharLen(s) > MAX_LEN THEN Err(TooLong(CharLen(s), MAX_LEN))
    ELSE Ok(ContentString(s))

\* new without the check for the empty text
new_accepts_empty(s) ==
    IF len(s) > MAX_LEN THEN Err(TooLong(len(s), MAX_LEN))
    ELSE Ok(ContentString(s))

new(s) ==
    IF len(s) = 0 THEN Err(Empty)
    ELSE IF len(s) > MAX_LEN THEN Err(TooLong(len(s), MAX_LEN))
    ELSE Ok(ContentString(s))

as_str(cs) == cs.inner
into_inner(cs) == cs.inner
clone(cs) == ContentString(cs.inner)

\* &str::to_string copies the text
to_string(s) == [i \in 1..Len(s) |-> [ch |-> s[i].ch, n |-> s[i].n]]
try_from_String(value) == new(value)
try_from_str(value) == new(to_string(value))

-----------------------------------------------------------------------------
(* JSON values, as the serializer builds them *)

JsonNull == [type |-> "null"]
JsonString(s) == [type |-> "string", str |-> s]
JsonNumber(n) == [type |-> "number", num |-> n]
JsonObject(fields) == [type |-> "object", fields |-> fields]
Field(k, v) == [key |-> k, value |-> v]

\* a ContentString serialized as a struct around its field
ContentString_serialize_wrapped(cs) ==
    JsonObject(<<Field("0", JsonString(as_str(cs)))>>)

\* impl Serialize for ContentString: serializer.serialize_str(self.0.as_str())
ContentString_serialize(cs) == JsonString(as_str(cs))

InputPayload(cs) == [struct |-> "InputPayload", input |-> cs]
GeneratePayload(start, max_length) ==
    [struct |-> "GeneratePayload", start |-> start, max_length |-> max_length]

\* #[derive(Serialize)] on InputPayload: one field, in declaration order
InputPayload_serialize(p) ==
    JsonObject(<<Field("input", ContentString_serialize(p.input))>>)

\* GeneratePayload with its None fields skipped
GeneratePayload_serialize_skip_none(p) ==
    JsonObject(
        (IF p.start = None THEN <<>>
         ELSE <<Field("start", ContentString_serialize(p.start.some))>>)
        \o
        (IF p.max_length = None THEN <<>>
         ELSE <<Field("max_length", JsonNumber(p.max_length.some))>>))

\* #[derive(Serialize)] on GeneratePayload: both fields, None as null
GeneratePayload_serialize(p) ==
    JsonObject(<<
        Field("start",
              IF p.start = None THEN JsonNull
              ELSE ContentString_serialize(p.start.some)),
        Field("max_length",
              IF p.max_length = None THEN JsonNull
              ELSE JsonNumber(p.max_length.some)) >>)

\* MarkovChainClient::serialize: serde_json::to_string(&value).map_err(Error::Json)
serialize(p) ==
    IF p.struct = "InputPayload" THEN Ok(InputPayload_serialize(p))
    ELSE Ok(GeneratePayload_serialize(p))

-----------------------------------------------------------------------------
(* TextSpec: the inputs *)

\* repetitions of c that reach MAX_LEN bytes, give or take Slack
NearMax(c) ==
    { n \in ((MAX_LEN \div Utf8Width(c)) - Slack)..((MAX_LEN \div Utf8Width(c)) + Slack) :
        n >= 0 }

Texts ==
    { Concat(Rep("a", p), Rep(c, n)) :
        <<p, c, n>> \in { t \in (0..MaxPrefix) \X Chars \X (0..(MAX_LEN + Slack)) :
                            t[3] \in (0..MaxShort) \cup NearMax(t[2]) } }

MaxLengths == {None, Some(0), Some(42)}

Slots == 1..MaxValues

FreeSlots == { i \in Slots : values[i] = None }

NoOp == [op |-> "none"]

TextInit ==
    /\ raw \in Texts
    /\ values = [i \in Slots |-> None]
    /\ payload = None
    /\ last = NoOp
    /\ client = [state |-> "none"]
    /\ calls = <<>>
    /\ wire = <<>>

\* The three constructors; a success puts the value in a free slot.
Construct(via, r) ==
    /\ FreeSlots # {}
    /\ last' = [op |-> via, arg |-> raw, ret |-> r]
    /\ IF r.tag = "Ok"
       THEN \E i \in FreeSlots :
               /\ \A j \in FreeSlots : i <= j
               /\ values' = [values EXCEPT ![i] = Some(r.val)]
       ELSE values' = values
    /\ UNCHANGED <<raw, payload, clientVars>>

NewValue == Construct("new", new(raw))
TryFromString == Construct("try_from_String", try_from_String(raw))
TryFromStr == Construct("try_from_str", try_from_str(raw))

Clone(i) ==
    /\ values[i] # None
    /\ \E j \in FreeSlots :
          /\ \A k \in FreeSlots : j <= k
          /\ values' = [values EXCEPT ![j] = Some(clone(values[i].some))]
    /\ last' = [op |-> "clone", slot |-> i, ret |-> clone(values[i].some)]
    /\ UNCHANGED <<raw, payload, clientVars>>

AsStr(i) ==
    /\ values[i] # None
    /\ last' = [op |-> "as_str", slot |-> i, ret |-> as_str(values[i].some)]
    /\ UNCHANGED <<raw, values, payload, clientVars>>

\* into_inner takes self by value: the ContentString is gone afterwards
IntoInner(i) ==
    /\ values[i] # None
    /\ last' = [op |-> "into_inner", slot |-> i, ret |-> into_inner(values[i].some)]
    /\ values' = [values EXCEPT ![i] = None]
    /\ UNCHANGED <<raw, payload, clientVars>>

\* the value moves into the payload
BuildInputPayload(i) ==
    /\ values[i] # None
    /\ payload' = Some(InputPayload(values[i].some))
    /\ values' = [values EXCEPT ![i] = None]
    /\ last' = [op |-> "build", slot |-> i]
    /\ UNCHANGED <<raw, clientVars>>

BuildGeneratePayloadWithStart(i, m) ==
    /\ values[i] # None
    /\ payload' = Some(GeneratePayload(Some(values[i].some), m))
    /\ values' = [values EXCEPT ![i] = None]
    /\ last' = [op |-> "build", slot |-> i]
    /\ UNCHANGED <<raw, clientVars>>

BuildGeneratePayloadNoStart(m) ==
    /\ payload' = Some(GeneratePayload(None, m))
    /\ last' = [op |-> "build", slot |-> 0]
    /\ UNCHANGED <<raw, values, clientVars>>

SerializeValue(i) ==
    /\ values[i] # None
    /\ last' = [op |-> "serialize_value", slot |-> i,
                ret |-> ContentString_serialize(values[i].some)]
    /\ UNCHANGED <<raw, values, payload, clientVars>>

SerializePayload ==
    /\ payload # None
    /\ last' = [op |-> "serialize_payload", ret |-> serialize(payload.some)]
    /\ UNCHANGED <<raw, values, payload, clientVars>>

TextNext ==
    \/ NewValue
    \/ TryFromString
    \/ TryFromStr
    \/ \E i \in Slots : Clone(i)
    \/ \E i \in Slots : AsStr(i)
    \/ \E i \in Slots : IntoInner(i)
    \/ \E i \in Slots : BuildInputPayload(i)
    \/ \E i \in Slots, m \in MaxLengths : BuildGeneratePayloadWithStart(i, m)
    \/ \E m \in MaxLengths : BuildGeneratePayloadNoStart(m)
    \/ \E i \in Slots : SerializeValue(i)
    \/ SerializePayload

TextSpec == TextInit /\ [][TextNext]_vars


-----------------------------------------------------------------------------
(* Url: an address is a sequence of tokens, the first of which may be a     *)
(* scheme.  "http://host" opens a URL with a host, whose path follows;      *)
(* "data:" opens a URL without a host, whose opaque path follows.           *)

SchemeTokens == {"http://host", "data:"}
PathTokens == {"/", "api"}

RECURSIVE SeqsUpTo(_, _)
SeqsUpTo(S, n) ==
    IF n = 0 THEN {<<>>}
    ELSE SeqsUpTo(S, n - 1)
         \cup { Append(q, x) : <<q, x>> \in { q \in SeqsUpTo(S, n - 1) : Len(q) = n - 1 } \X S }

\* The addresses handed to MarkovChainClient::new: with a host and a path that
\* is empty or starts with a slash, without a host, and without a scheme.
Addresses ==
    { <<"http://host">> \o q : q \in { q \in SeqsUpTo(PathTokens, MaxPathLen) :
                                          q = <<>> \/ q[1] = "/" } }
    \cup { <<"data:">> \o q : q \in SeqsUpTo(PathTokens \ {"/"}, MaxPathLen) }
    \cup SeqsUpTo(PathTokens, MaxPathLen)

\* Url::parse on these addresses
parse(a) ==
    IF a = <<>> \/ a[1] \notin SchemeTokens
    THEN Err("RelativeUrlWithoutBase")
    ELSE IF a[1] = "http://host"
    THEN Ok([scheme |-> "http", host |-> Some("host"),
             path |-> IF Tail(a) = <<>> THEN <<"/">> ELSE Tail(a),
             cannot_be_a_base |-> FALSE])
    ELSE Ok([scheme |-> "data", host |-> None,
             path |-> Tail(a),
             cannot_be_a_base |-> TRUE])

has_host(url) == url.host # None

\* into_url without the refusal of a URL that has no host
into_url_any_scheme(a) == parse(a)

\* IntoUrl::into_url: parse, then refuse a URL that has no host
into_url(a) ==
    IF parse(a).tag = "Err" THEN Err("Builder")
    ELSE IF has_host(parse(a).val) THEN parse(a)
    ELSE Err("BadScheme")

LastSlash(path) ==
    IF \E i \in 1..Len(path) : path[i] = "/"
    THEN CHOOSE i \in 1..Len(path) :
            /\ path[i] = "/"
            /\ \A j \in (i + 1)..Len(path) : path[j] # "/"
    ELSE 0

\* Url::join with a reference that is one path segment: the reference replaces
\* whatever follows the last slash of the base's path
join(url, reference) ==
    IF url.cannot_be_a_base THEN Err("RelativeUrlWithCannotBeABaseBase")
    ELSE Ok([url EXCEPT !.path = SubSeq(url.path, 1, LastSlash(url.path))
                                   \o <<reference>>])

\* MarkovChainClient::get_url
get_url(addr, endpoint) == join(addr, endpoint)

-----------------------------------------------------------------------------
(* Error, and what the transport may answer *)

Http == [kind |-> "Http"]
Json == [kind |-> "Json"]
Api(status, body) == [kind |-> "Api", status |-> status, body |-> body]

Unit == <<>>

Statuses == {200, 204, 404, 500}

\* a response body arrives in chunks
Bodies == { <<>>, << <<"server">>, <<"error">> >> }

\* a status check that lets 4xx through
is_success_or_client_error(status) == 200 <= status /\ status <= 499

\* StatusCode::is_success
is_success(status) == 200 <= status /\ status <= 299

RECURSIVE Flatten(_)
Flatten(chunks) ==
    IF chunks = <<>> THEN <<>> ELSE chunks[1] \o Flatten(Tail(chunks))

\* Response::text: the whole body
text(response) == Flatten(response.body)

-----------------------------------------------------------------------------
(* MarkovChainClient *)

CallIds == 1..MaxCalls

Idle == [pc |-> "idle"]

\* MarkovChainClient::new: expect() panics on an address into_url refuses
MarkovChainClient_new(a) ==
    IF into_url(a).tag = "Ok"
    THEN [state |-> "ready", given |-> a, addr |-> into_url(a).val]
    ELSE [state |-> "panicked", given |-> a]

\* post, up to send(): a POST of the payload to the endpoint
post(endpoint, body) == [method |-> "POST", url |-> endpoint, body |-> body]

\* input up to the first await: resolve the endpoint (expect() panics on Err),
\* serialize the payload (? returns on Err), hand the POST to the transport
input(p) ==
    IF get_url(client.addr, "generate").tag = "Err"
    THEN [op |-> "input", name |-> "generate", pc |-> "panicked"]
    ELSE IF serialize(p).tag = "Err"
    THEN [op |-> "input", name |-> "generate", pc |-> "done", result |-> Err(Json)]
    ELSE [op |-> "input", name |-> "generate", pc |-> "sent",
          request |-> post(get_url(client.addr, "generate").val, serialize(p).val)]

\* generate up to the first await, likewise
generate(p) ==
    IF get_url(client.addr, "generate").tag = "Err"
    THEN [op |-> "generate", name |-> "generate", pc |-> "panicked"]
    ELSE IF serialize(p).tag = "Err"
    THEN [op |-> "generate", name |-> "generate", pc |-> "done", result |-> Err(Json)]
    ELSE [op |-> "generate", name |-> "generate", pc |-> "sent",
          request |-> post(get_url(client.addr, "generate").val, serialize(p).val)]

\* post sending the request again after a transport failure
post_send_error_retry(c, call, w) ==
    [call |-> call, wire |-> Append(w, [call |-> c, request |-> call.request])]

\* post, send().await? on a transport failure: the error is returned
post_send_error(c, call, w) ==
    [call |-> [op |-> call.op, name |-> call.name, pc |-> "done",
               request |-> call.request, result |-> Err(Http)],
     wire |-> w]

\* post once the response's status is in: Ok(response) on a success status,
\* which input turns into Ok(()) and generate into reading the text; otherwise
\* the body is read for Error::Api
post_response(call, response) ==
    IF is_success(response.status)
    THEN IF call.op = "input"
         THEN [op |-> call.op, name |-> call.name, pc |-> "done",
               request |-> call.request, response |-> response,
               result |-> Ok(Unit)]
         ELSE [op |-> call.op, name |-> call.name, pc |-> "text",
               request |-> call.request, response |-> response]
    ELSE [op |-> call.op, name |-> call.name, pc |-> "error_text",
          request |-> call.request, response |-> response]

\* response.text().await? succeeded
text_read(call) ==
    [op |-> call.op, name |-> call.name, pc |-> "done",
     request |-> call.request, response |-> call.response,
     read |-> Some(text(call.response)),
     result |-> IF call.pc = "text"
                THEN Ok(text(call.response))
                ELSE Err(Api(call.response.status, text(call.response)))]

\* response.text().await? failed: ? returns the reqwest error
text_failed(call) ==
    [op |-> call.op, name |-> call.name, pc |-> "done",
     request |-> call.request, response |-> call.response,
     read |-> None,
     result |-> Err(Http)]

-----------------------------------------------------------------------------
(* Spec: the client and the transport *)

ClientTexts == { Rep("a", 1) }

InputPayloads == { InputPayload(new(t).val) : t \in ClientTexts }

GeneratePayloads ==
    { GeneratePayload(None, None) }
    \cup { GeneratePayload(Some(new(t).val), Some(42)) : t \in ClientTexts }

Init ==
    /\ raw = <<>>
    /\ values = [i \in Slots |-> None]
    /\ payload = None
    /\ last = NoOp
    /\ client = [state |-> "none"]
    /\ calls = [c \in CallIds |-> Idle]
    /\ wire = <<>>

NewClient(a) ==
    /\ client.state = "none"
    /\ client' = MarkovChainClient_new(a)
    /\ UNCHANGED <<calls, wire, textVars>>

Begin(c, call) ==
    /\ client.state = "ready"
    /\ calls[c].pc = "idle"
    /\ calls' = [calls EXCEPT ![c] = call]
    /\ wire' = IF call.pc = "sent"
               THEN Append(wire, [call |-> c, request |-> call.request])
               ELSE wire
    /\ UNCHANGED <<client, textVars>>

Input(c, p) == Begin(c, input(p))

Generate(c, p) == Begin(c, generate(p))

\* the transport fails before a response arrives
SendError(c) ==
    /\ calls[c].pc = "sent"
    /\ calls' = [calls EXCEPT ![c] = post_send_error(c, calls[c], wire).call]
    /\ wire' = post_send_error(c, calls[c], wire).wire
    /\ UNCHANGED <<client, textVars>>

\* the service answers
Respond(c, status, body) ==
    /\ calls[c].pc = "sent"
    /\ calls' = [calls EXCEPT ![c] =
                    post_response(calls[c], [status |-> status, body |-> body])]
    /\ UNCHANGED <<client, wire, textVars>>

TextRead(c) ==
    /\ calls[c].pc \in {"text", "error_text"}
    /\ calls' = [calls EXCEPT ![c] = text_read(calls[c])]
    /\ UNCHANGED <<client, wire, textVars>>

TextFailed(c) ==
    /\ calls[c].pc \in {"text", "error_text"}
    /\ calls' = [calls EXCEPT ![c] = text_failed(calls[c])]
    /\ UNCHANGED <<client, wire, textVars>>

Next ==
    \/ \E a \in Addresses : NewClient(a)
    \/ \E c \in CallIds, p \in InputPayloads : Input(c, p)
    \/ \E c \in CallIds, p \in GeneratePayloads : Generate(c, p)
    \/ \E c \in CallIds : SendError(c)
    \/ \E c \in CallIds, status \in Statuses, body \in Bodies : Respond(c, status, body)
    \/ \E c \in CallIds : TextRead(c)
    \/ \E c \in CallIds : TextFailed(c)

Spec == Init /\ [][Next]_vars


-----------------------------------------------------------------------------
(* Vocabulary of the properties *)

\* the encoded length of a text, counted character by character
EncodedLength(t) ==
    LET count(c) == CharLen(SelectSeq(t, LAMBDA r : r.ch = c))
    IN  count("a") + 2 * count("e_acute") + 3 * count("euro") + 4 * count("emoji")

Constructors == {"new", "try_from_String", "try_from_str"}

InBounds(cs) == 1 <= EncodedLength(cs.inner) /\ EncodedLength(cs.inner) <= 2000

HasRequest(call) == call.pc \in {"sent", "text", "error_text", "done"} /\ "request" \in DOMAIN call
HasResponse(call) == "response" \in DOMAIN call
Done(call) == call.pc = "done"
NonSuccess(call) == HasResponse(call) /\ call.response.status \notin 200..299

LastOf(q) == q[Len(q)]

\* base + "/" + name, a slash that ends the base not being doubled
BasePlus(url, name) ==
    [url EXCEPT !.path =
        (IF LastOf(url.path) = "/" THEN url.path ELSE url.path \o <<"/">>) \o <<name>>]

RequestsOf(c) == { i \in DOMAIN wire : wire[i].call = c }

-----------------------------------------------------------------------------
(* Properties of ContentString and the payloads, under TextSpec *)

\* C3: a text of 1 to 2000 encoded bytes is accepted by every constructor, and
\* as_str and into_inner give back exactly that text.
C3_ValidTextKept ==
    /\ (last.op \in Constructors /\ 1 <= EncodedLength(raw) /\ EncodedLength(raw) <= 2000)
          => last.ret = Ok([inner |-> raw])
    /\ last.op = "as_str" => (last.ret = raw /\ values[last.slot] = Some([inner |-> raw]))
    /\ last.op = "into_inner" => last.ret = raw

C3_Witness ==
    /\ last.op = "into_inner"
    /\ EncodedLength(raw) = 2000
    /\ Len(raw) = 2
    /\ last.ret = raw

\* the lower boundary of C3: a text of one byte
C3_WitnessShortest ==
    /\ last.op = "as_str"
    /\ EncodedLength(raw) = 1
    /\ last.ret = raw

\* C4: construction fails with Empty exactly when the encoded length L is 0, and
\* with TooLong{length = L, max = 2000} exactly when L > 2000.
C4_RejectionByLength ==
    last.op \in Constructors =>
        /\ last.ret = Err([kind |-> "Empty"]) <=> EncodedLength(raw) = 0
        /\ (last.ret.tag = "Err" /\ last.ret.err.kind = "TooLong") <=> EncodedLength(raw) > 2000
        /\ EncodedLength(raw) > 2000 =>
              last.ret = Err([kind |-> "TooLong", length |-> EncodedLength(raw), max |-> 2000])

C4_Witness ==
    /\ last.op \in Constructors
    /\ CharLen(raw) <= 2000
    /\ EncodedLength(raw) > 2000
    /\ last.ret.tag = "Err"
    /\ last.ret.err.length = EncodedLength(raw)

ValuesInBounds ==
    /\ \A i \in Slots : values[i] # None => InBounds(values[i].some)
    /\ (payload # None /\ payload.some.struct = "InputPayload")
          => InBounds(payload.some.input)
    /\ (payload # None /\ payload.some.struct = "GeneratePayload"
                       /\ payload.some.start # None)
          => InBounds(payload.some.start.some)

ValuesKeepText ==
    \A i \in Slots : (values[i] # None /\ values'[i] # None) => values'[i] = values[i]

\* C5: every ContentString alive, in a slot or in a payload, holds 1 to 2000
\* encoded bytes, and no step changes the text of a value that stays alive.
C5_ValueInvariant == [](ValuesInBounds) /\ [][ValuesKeepText]_vars

C5_Witness ==
    /\ payload # None
    /\ payload.some.struct = "GeneratePayload"
    /\ payload.some.start # None
    /\ values[1] # None
    /\ last.op = "clone"
    /\ EncodedLength(raw) = 2000

\* C8: a GeneratePayload serializes to an object with exactly the keys start and
\* max_length, each null when absent and the plain value otherwise.
C8_GeneratePayloadJson ==
    (last.op = "serialize_payload" /\ payload.some.struct = "GeneratePayload") =>
        /\ last.ret.tag = "Ok"
        /\ last.ret.val.type = "object"
        /\ Len(last.ret.val.fields) = 2
        /\ \E i, j \in 1..2 :
              /\ last.ret.val.fields[i].key = "start"
              /\ last.ret.val.fields[i].value =
                    (IF payload.some.start = None THEN [type |-> "null"]
                     ELSE [type |-> "string", str |-> payload.some.start.some.inner])
              /\ last.ret.val.fields[j].key = "max_length"
              /\ last.ret.val.fields[j].value =
                    (IF payload.some.max_length = None THEN [type |-> "null"]
                     ELSE [type |-> "number", num |-> payload.some.max_length.some])

C8_Witness ==
    /\ last.op = "serialize_payload"
    /\ payload.some.struct = "GeneratePayload"
    /\ payload.some.start # None
    /\ payload.some.max_length = None
    /\ last.ret.tag = "Ok"

\* C9: a ContentString serializes to the plain JSON string of its text, and an
\* InputPayload to the object whose single key input holds that string.
C9_PlainString ==
    /\ last.op = "serialize_value" => last.ret = [type |-> "string", str |-> raw]
    /\ (last.op = "serialize_payload" /\ payload.some.struct = "InputPayload") =>
          last.ret = Ok([type |-> "object",
                         fields |-> << [key |-> "input",
                                        value |-> [type |-> "string",
                                                   str |-> payload.some.input.inner]] >>])

C9_Witness ==
    /\ last.op = "serialize_payload"
    /\ payload.some.struct = "InputPayload"
    /\ payload.some.input.inner = raw
    /\ last.ret.tag = "Ok"

-----------------------------------------------------------------------------
(* Properties of the client, under Spec *)

\* C1: input posts to the endpoint named input and never to generate; generate
\* posts to the endpoint named generate.
C1_EndpointOfOperation ==
    \A c \in CallIds : HasRequest(calls[c]) =>
        /\ calls[c].request.method = "POST"
        /\ LastOf(calls[c].request.url.path) = calls[c].op

\* C2: the endpoint resolved for a name is the base address, "/" and the name:
\* no path segment of the base address is dropped.
C2_EndpointIsBasePlusName ==
    \A c \in CallIds : HasRequest(calls[c]) =>
        calls[c].request.url = BasePlus(client.addr, calls[c].name)

\* C6, as claimed: after a non-2xx status the call fails with the API error
\* carrying the status and the whole body, and with nothing else.
C6_NonSuccessIsApiError ==
    \A c \in CallIds : (Done(calls[c]) /\ NonSuccess(calls[c])) =>
        calls[c].result = Err([kind |-> "Api",
                               status |-> calls[c].response.status,
                               body |-> Flatten(calls[c].response.body)])

\* C6, amended: after a non-2xx status the call never succeeds; it fails with
\* the API error carrying the status and the whole body when the body was read,
\* and with the transport error when reading the body failed.
C6_NonSuccessIsApiOrTransportError ==
    \A c \in CallIds : (Done(calls[c]) /\ NonSuccess(calls[c])) =>
        /\ calls[c].result.tag = "Err"
        /\ calls[c].read # None =>
              calls[c].result = Err([kind |-> "Api",
                                     status |-> calls[c].response.status,
                                     body |-> Flatten(calls[c].response.body)])
        /\ calls[c].read = None => calls[c].result = Err([kind |-> "Http"])

C6_Witness ==
    \E c \in CallIds :
        /\ Done(calls[c])
        /\ calls[c].op = "input"
        /\ NonSuccess(calls[c])
        /\ calls[c].response.status = 404
        /\ calls[c].read = Some(<<"server", "error">>)
        /\ calls[c].result.err.kind = "Api"

Unparseable(a) == a = <<>> \/ a[1] \notin SchemeTokens
Hostless(a) == a # <<>> /\ a[1] = "data:"

CallsReturn ==
    \A c \in CallIds :
        /\ calls[c].pc # "panicked"
        /\ Done(calls[c]) =>
              \/ calls[c].result.tag = "Ok"
              \/ /\ calls[c].result.tag = "Err"
                 /\ calls[c].result.err.kind \in {"Http", "Json", "Api"}

\* C7, as claimed: no call of input or generate aborts, and construction
\* aborts only on an address that cannot be parsed as a URL.
C7_AbortOnlyOnUnparseable ==
    /\ CallsReturn
    /\ client.state = "panicked" => Unparseable(client.given)

\* C7, amended: no call of input or generate aborts, and construction aborts
\* only on an address that cannot be converted to a URL with a host: one that
\* cannot be parsed, or one that parses to a URL without a host.
C7_AbortOnlyOnUnconvertible ==
    /\ CallsReturn
    /\ client.state = "panicked" => (Unparseable(client.given) \/ Hostless(client.given))

C7_Witness ==
    \E c \in CallIds :
        /\ client.state = "ready"
        /\ Len(client.given) > 1
        /\ Done(calls[c])
        /\ calls[c].result.tag = "Ok"

\* C10: a call hands at most one request to the transport; a transport failure
\* ends it with the transport error and a non-success status with an error,
\* without a second request.
C10_OneRequestPerCall ==
    \A c \in CallIds :
        /\ Cardinality(RequestsOf(c)) <= 1
        /\ (Done(calls[c]) /\ HasRequest(calls[c]) /\ ~HasResponse(calls[c]))
              => calls[c].result = Err([kind |-> "Http"])
        /\ (Done(calls[c]) /\ NonSuccess(calls[c])) => calls[c].result.tag = "Err"
        /\ (Done(calls[c]) /\ HasRequest(calls[c])) => Cardinality(RequestsOf(c)) = 1

C10_Witness ==
    \E c \in CallIds :
        /\ Done(calls[c])
        /\ HasRequest(calls[c])
        /\ ~HasResponse(calls[c])
        /\ calls[c].result = Err([kind |-> "Http"])
        /\ Cardinality(RequestsOf(c)) = 1

=============================================================================
